---- MODULE Spec2Model ----
(***************************************************************************)
(* Document tiering and chunked semantic retrieval of the LinkedIn post    *)
(* generator backend: size and token guards, tier selection, truncation,   *)
(* chunking, the per-document vector collection, query expansion, the      *)
(* multi-query retrieval merge and the upload / file_search handlers.      *)
(*                                                                         *)
(* A text (Python str holding document content) is held run-length         *)
(* encoded: a sequence of runs [ch, n], n >= 1, adjacent runs of different *)
(* characters.  The encoding is only a representation: every operator      *)
(* below is the character-level operation of the source computed on runs,  *)
(* so that a document of 80,001 tokens is a value the checker can hold.    *)
(* Identifiers (file ids, chunk ids) are plain sequences of characters.    *)
(***************************************************************************)
EXTENDS Integers, Sequences, FiniteSets, TLC

VARIABLES
    document_store,   \* main.py: document_store, file id -> DocumentContent
    collections,      \* rag.py: the collections held by chroma_client
    tmp_files,        \* the temporary PDF files upload_document has on disk
    uuid_count,       \* how many uuid4() values have been drawn
    response,         \* outcome of the last request handler
    call,             \* the function application under check and its result
    rq                \* retrieve_chunks in progress: its local variables

vars == <<document_store, collections, tmp_files, uuid_count, response, call, rq>>

(***************************************************************************)
(* Bounds of the model.                                                    *)
(***************************************************************************)
Margin == 8          \* integers this close to a ceiling are tried
MaxTextLen == 3      \* characters of a text handed to truncate_text
MaxBudget == 3       \* largest max_tokens handed to truncate_text
MaxHits == 2         \* hits one collection.query answers with
MaxVariants == 6     \* variants the text-generation call answers with
MaxChunks == 2       \* chunks of the longest document indexed
MaxOrdinal == 12     \* largest chunk ordinal formatted and parsed
MaxUuids == 4        \* uuid4() values drawn by the uploads of one run
MaxWords == 6        \* words of a text chunked with a small window
MaxLoop == 8         \* turns of the chunker's loop that are followed

(***************************************************************************)
(* Program constants (file_search/config.py).                              *)
(***************************************************************************)
MAX_FILE_SIZE_MB == 3
MAX_FILE_SIZE_BYTES == MAX_FILE_SIZE_MB * 1024 * 1024
DIRECT_TOKEN_LIMIT == 80000
MAX_TOKEN_LIMIT == 120000
CHUNK_SIZE_TOKENS == 1000
CHUNK_OVERLAP_TOKENS == 100
TOP_K_CHUNKS == 10
LLM_MODEL == "gpt-4o-mini"

None == [none |-> TRUE]

\* a value of an Optional field that is not None
Some(v) == [some |-> v]

Min(a, b) == IF a <= b THEN a ELSE b

(***************************************************************************)
(* Python str, run-length encoded.                                         *)
(***************************************************************************)
Run(c, k) == [ch |-> c, n |-> k]

\* s + t
Cat(s, t) ==
    IF s = <<>> THEN t
    ELSE IF t = <<>> THEN s
    ELSE IF s[Len(s)].ch = t[1].ch
         THEN SubSeq(s, 1, Len(s) - 1)
                  \o <<Run(t[1].ch, s[Len(s)].n + t[1].n)>> \o Tail(t)
         ELSE s \o t

RECURSIVE LitR(_, _, _)
LitR(cs, lo, hi) ==
    IF lo > hi THEN <<>>
    ELSE IF lo = hi THEN <<Run(cs[lo], 1)>>
    ELSE LET mid == (lo + hi) \div 2
         IN  Cat(LitR(cs, lo, mid), LitR(cs, mid + 1, hi))

\* the str whose characters are cs[1], cs[2], ...
Lit(cs) == LitR(cs, 1, Len(cs))

\* c repeated k times
Rep(c, k) == IF k = 0 THEN <<>> ELSE <<Run(c, k)>>

RECURSIVE StrLenR(_, _, _)
StrLenR(t, lo, hi) ==
    IF lo > hi THEN 0
    ELSE IF lo = hi THEN t[lo].n
    ELSE LET mid == (lo + hi) \div 2
         IN  StrLenR(t, lo, mid) + StrLenR(t, mid + 1, hi)

\* len(t)
StrLen(t) == StrLenR(t, 1, Len(t))

RECURSIVE JoinR(_, _, _, _)
JoinR(sep, parts, lo, hi) ==
    IF lo > hi THEN <<>>
    ELSE IF lo = hi THEN parts[lo]
    ELSE LET mid == (lo + hi) \div 2
         IN  Cat(Cat(JoinR(sep, parts, lo, mid), sep),
                 JoinR(sep, parts, mid + 1, hi))

\* sep.join(parts)
Join(sep, parts) == JoinR(sep, parts, 1, Len(parts))

\* the characters str.split() and str.strip() treat as whitespace
Whitespace == {" ", "\n", "\t"}

IsSpace(c) == c \in Whitespace

\* t.strip() == ""
StripIsEmpty(t) == \A i \in DOMAIN t : IsSpace(t[i].ch)

RECURSIVE SplitR(_, _, _, _)
SplitR(seps, t, lo, hi) ==
    IF lo > hi THEN <<>>
    ELSE IF lo = hi
         THEN IF t[lo].ch \in seps THEN <<>> ELSE << <<t[lo]>> >>
    ELSE LET mid == (lo + hi) \div 2
             L == SplitR(seps, t, lo, mid)
             R == SplitR(seps, t, mid + 1, hi)
         IN  IF t[mid].ch \notin seps /\ t[mid + 1].ch \notin seps
             THEN SubSeq(L, 1, Len(L) - 1)
                      \o << L[Len(L)] \o R[1] >> \o Tail(R)
             ELSE L \o R

\* t.split(): the maximal runs of non-whitespace characters, in order
Split(t) == SplitR(Whitespace, t, 1, Len(t))

(***************************************************************************)
(* tiktoken.  encoding_for_model picks the encoding; an encoding cuts a    *)
(* text into tokens.  The byte-pair merges are modelled by the pairs of    *)
(* adjacent characters an encoding keeps in one token: a token is a        *)
(* maximal stretch of the text in which every adjacent pair is kept        *)
(* together.  Both encodings keep a run of newlines together, the letters  *)
(* of a word together and a single space with the word after it; the older *)
(* encoding also keeps a run of dots together.  decode(encode(t)) = t.     *)
(***************************************************************************)
Letters == {"a", "b", "c", "d", "e", "f", "i", "k", "l", "m", "n", "o", "r",
            "t", "u", "C"}

encoding_for_model(model) ==
    IF model \in {"gpt-4o-mini", "gpt-4o"} THEN "o200k_base" ELSE "cl100k_base"

Merges(enc, a, b) ==
    \/ a = "\n" /\ b = "\n"
    \/ a \in Letters /\ b \in Letters
    \/ a = " " /\ b \in Letters
    \/ enc = "cl100k_base" /\ a = "." /\ b = "."

RECURSIVE EncodeR(_, _, _, _)
EncodeR(enc, t, lo, hi) ==
    IF lo > hi THEN <<>>
    ELSE IF lo = hi
         THEN IF Merges(enc, t[lo].ch, t[lo].ch)
              THEN << <<t[lo]>> >>
              ELSE [k \in 1..t[lo].n |-> <<Run(t[lo].ch, 1)>>]
    ELSE LET mid == (lo + hi) \div 2
             L == EncodeR(enc, t, lo, mid)
             R == EncodeR(enc, t, mid + 1, hi)
         IN  IF Merges(enc, t[mid].ch, t[mid + 1].ch)
             THEN SubSeq(L, 1, Len(L) - 1)
                      \o << L[Len(L)] \o R[1] >> \o Tail(R)
             ELSE L \o R

\* encoding.encode(text): the tokens of text, each with the text it stands for
Encode(enc, t) == EncodeR(enc, t, 1, Len(t))

\* encoding.decode(tokens)
Decode(tokens) == Join(<<>>, tokens)

RECURSIVE TokenCountR(_, _, _, _)
TokenCountR(enc, t, lo, hi) ==
    IF lo > hi THEN 0
    ELSE IF lo = hi
         THEN IF Merges(enc, t[lo].ch, t[lo].ch) THEN 1 ELSE t[lo].n
    ELSE LET mid == (lo + hi) \div 2
         IN  TokenCountR(enc, t, lo, mid) + TokenCountR(enc, t, mid + 1, hi)
                 - (IF Merges(enc, t[mid].ch, t[mid + 1].ch) THEN 1 ELSE 0)

\* len(encoding.encode(text)), computed without building the token list
TokenCount(enc, t) == TokenCountR(enc, t, 1, Len(t))

(***************************************************************************)
(* Decimal digits and str(i).                                              *)
(***************************************************************************)
DigitChars == <<"0", "1", "2", "3", "4", "5", "6", "7", "8", "9">>

DigitValue(c) == CHOOSE v \in 0..9 : DigitChars[v + 1] = c

IsDigit(c) == \E v \in 0..9 : DigitChars[v + 1] = c

\* str(i) for i >= 0, as the f-string formats the chunk index
RECURSIVE Str(_)
Str(i) ==
    IF i < 10 THEN <<DigitChars[i + 1]>>
    ELSE Str(i \div 10) \o <<DigitChars[(i % 10) + 1]>>

(***************************************************************************)
(* document_processor.py                                                   *)
(***************************************************************************)
count_tokens(text) == TokenCount(encoding_for_model(LLM_MODEL), text)

Ok(v) == [ok |-> TRUE, val |-> v]
Raise(kind, detail) == [ok |-> FALSE, exc |-> kind, detail |-> detail]

\* round(num / den) to the nearest integer, ties to the even one, as the
\* float formatting of a quotient that is exact in binary does
RoundHalfEven(num, den) ==
    LET q == num \div den
        r == num % den
    IN  IF 2 * r > den \/ (2 * r = den /\ q % 2 = 1) THEN q + 1 ELSE q

\* f"{num / den:.0f}"
FormatFixed0(num, den) == Str(RoundHalfEven(num, den))

\* f"{num / den:.1f}"
FormatFixed1(num, den) ==
    LET tenths == RoundHalfEven(10 * num, den)
    IN  Str(tenths \div 10) \o <<".">> \o Str(tenths % 10)

\* f"{n:,}": the digits of n >= 0, a comma before every group of three
RECURSIVE FormatThousands(_)
FormatThousands(n) ==
    IF n < 1000 THEN Str(n)
    ELSE LET g == n % 1000
         IN  FormatThousands(n \div 1000)
                 \o <<",", DigitChars[(g \div 100) + 1],
                      DigitChars[((g \div 10) % 10) + 1],
                      DigitChars[(g % 10) + 1]>>

\* an f-string: its literal text with the holes numbered, and the formatted
\* values that fill the holes
FString(fmt, args) == [fmt |-> fmt, args |-> args]

validate_file_size_decimal(size_bytes) ==
    IF size_bytes > MAX_FILE_SIZE_MB * 1000 * 1000
    THEN Raise("ValueError",
               FString("File too large ({0}MB). Maximum allowed is {1}MB.",
                       <<FormatFixed1(size_bytes, 1024 * 1024),
                         FormatFixed0(MAX_FILE_SIZE_BYTES, 1024 * 1024)>>))
    ELSE Ok(None)

validate_file_size(size_bytes) ==
    IF size_bytes > MAX_FILE_SIZE_BYTES
    THEN Raise("ValueError",
               FString("File too large ({0}MB). Maximum allowed is {1}MB.",
                       <<FormatFixed1(size_bytes, 1024 * 1024),
                         FormatFixed0(MAX_FILE_SIZE_BYTES, 1024 * 1024)>>))
    ELSE Ok(None)

TOKEN_COUNT_MESSAGE ==
    "Document too long ({0} tokens). Maximum allowed is {1} tokens (~80-100 pages). Please upload a shorter document."

validate_token_count_ge(token_count) ==
    IF token_count >= MAX_TOKEN_LIMIT
    THEN Raise("ValueError",
               FString(TOKEN_COUNT_MESSAGE,
                       <<FormatThousands(token_count),
                         FormatThousands(MAX_TOKEN_LIMIT)>>))
    ELSE Ok(None)

validate_token_count(token_count) ==
    IF token_count > MAX_TOKEN_LIMIT
    THEN Raise("ValueError",
               FString(TOKEN_COUNT_MESSAGE,
                       <<FormatThousands(token_count),
                         FormatThousands(MAX_TOKEN_LIMIT)>>))
    ELSE Ok(None)

determine_tier_lt(token_count) ==
    IF token_count < DIRECT_TOKEN_LIMIT THEN "direct" ELSE "rag"

determine_tier(token_count) ==
    IF token_count <= DIRECT_TOKEN_LIMIT THEN "direct" ELSE "rag"

TRUNCATION_MARKER ==
    Lit(<<"\n", "\n", "[", "C", "o", "n", "t", "e", "n", "t", " ",
          "t", "r", "u", "n", "c", "a", "t", "e", "d", " ", "t", "o", " ",
          "f", "i", "t", " ", "t", "o", "k", "e", "n", " ",
          "l", "i", "m", "i", "t", "]">>)

TRUNCATE_DEFAULT_MODEL == "gpt-4o-mini"

truncate_text_tail(text, max_tokens, model) ==
    IF count_tokens(text) <= max_tokens THEN text
    ELSE LET tokens == Encode(encoding_for_model(model), text)
             truncated_tokens ==
                 SubSeq(tokens, Len(tokens) - max_tokens + 1, Len(tokens))
         IN  Cat(Decode(truncated_tokens), TRUNCATION_MARKER)

truncate_text(text, max_tokens, model) ==
    IF count_tokens(text) <= max_tokens THEN text
    ELSE LET tokens == Encode(encoding_for_model(model), text)
             truncated_tokens == SubSeq(tokens, 1, Min(max_tokens, Len(tokens)))
             truncated_text == Decode(truncated_tokens)
         IN  Cat(truncated_text, TRUNCATION_MARKER)

(***************************************************************************)
(* Identifiers: plain character sequences.                                 *)
(***************************************************************************)
\* index of the first occurrence of sep in s, 0 when there is none
Find(s, sep) ==
    LET at == {i \in 1..(Len(s) - Len(sep) + 1) :
                  SubSeq(s, i, i + Len(sep) - 1) = sep}
    IN  IF at = {} THEN 0 ELSE CHOOSE i \in at : \A j \in at : i <= j

\* s.split(sep): cut at every occurrence of sep, leftmost first
RECURSIVE PySplit(_, _)
PySplit(s, sep) ==
    LET i == Find(s, sep)
    IN  IF i = 0 THEN <<s>>
        ELSE <<SubSeq(s, 1, i - 1)>>
                 \o PySplit(SubSeq(s, i + Len(sep), Len(s)), sep)

RECURSIVE DigitsValue(_)
DigitsValue(ds) ==
    IF ds = <<>> THEN 0
    ELSE 10 * DigitsValue(SubSeq(ds, 1, Len(ds) - 1)) + DigitValue(ds[Len(ds)])

\* int(s): an optional sign, then digits, single underscores allowed between
\* digits; anything else raises ValueError
PyInt(s) ==
    LET signed == s # <<>> /\ s[1] \in {"+", "-"}
        body == IF signed THEN Tail(s) ELSE s
        wellFormed ==
            /\ body # <<>>
            /\ IsDigit(body[1]) /\ IsDigit(body[Len(body)])
            /\ \A i \in DOMAIN body : IsDigit(body[i]) \/ body[i] = "_"
            /\ \A i \in 1..(Len(body) - 1) : ~(body[i] = "_" /\ body[i + 1] = "_")
        digits == SelectSeq(body, IsDigit)
    IN  IF ~wellFormed THEN Raise("ValueError", "invalid literal for int()")
        ELSE IF signed /\ s[1] = "-" THEN Ok(0 - DigitsValue(digits))
        ELSE Ok(DigitsValue(digits))

CHUNK_MARK == <<"_", "c", "h", "u", "n", "k", "_">>

\* f"{file_id}_chunk_{i}"
ChunkId(file_id, i) == file_id \o CHUNK_MARK \o Str(i)

SortKeyLast(chunk_id) ==
    LET parts == PySplit(chunk_id, CHUNK_MARK)
    IN  PyInt(parts[Len(parts)])

\* the sort key of retrieve_chunks: int(x[0].split("_chunk_")[1])
SortKey(chunk_id) ==
    LET parts == PySplit(chunk_id, CHUNK_MARK)
    IN  IF Len(parts) < 2 THEN Raise("IndexError", "list index out of range")
        ELSE PyInt(parts[2])

(***************************************************************************)
(* rag.py / rag_pipeline.py: the chunker.                                  *)
(***************************************************************************)
\* int(tokens * 0.75)
WordsFor(tokens) == (tokens * 3) \div 4

SPACE == Lit(<<" ">>)

\* seq[start:stop]: a negative index counts from the end, and an index
\* beyond either end is taken as that end
PySliceInclusive(seq, start, stop) ==
    LET n == Len(seq)
        clamp(i) == IF i < 0 THEN (IF i + n < 0 THEN 0 ELSE i + n)
                    ELSE Min(i, n)
    IN  SubSeq(seq, clamp(start) + 1, clamp(stop + 1))

PySlice(seq, start, stop) ==
    LET n == Len(seq)
        clamp(i) == IF i < 0 THEN (IF i + n < 0 THEN 0 ELSE i + n)
                    ELSE Min(i, n)
    IN  SubSeq(seq, clamp(start) + 1, clamp(stop))

ChunkOfGlued(words, start, end) == Join(<<>>, PySlice(words, start, end))

\* " ".join(words[start:end])
ChunkOf(words, start, end) == Join(SPACE, PySlice(words, start, end))

NextStartNoOverlap(end, overlap_words) == end

\* start = end - overlap_words
NextStart(end, overlap_words) == end - overlap_words

\* the while loop from a value of start on; evaluated only for windows that
\* advance
RECURSIVE ChunkLoop(_, _, _, _)
ChunkLoop(words, words_per_chunk, overlap_words, start) ==
    IF ~(start < Len(words)) THEN <<>>
    ELSE LET end == start + words_per_chunk
             chunk == ChunkOf(words, start, end)
         IN  <<chunk>> \o ChunkLoop(words, words_per_chunk, overlap_words,
                                    NextStart(end, overlap_words))

\* rag_pipeline.chunk_text(text, chunk_size, overlap)
chunk_text_with(text, chunk_size, overlap) ==
    ChunkLoop(Split(text), WordsFor(chunk_size), WordsFor(overlap), 0)

\* rag.chunk_text(text)
chunk_text(text) == chunk_text_with(text, CHUNK_SIZE_TOKENS, CHUNK_OVERLAP_TOKENS)

(***************************************************************************)
(* chromadb: a collection is the sequence of entries added to it.          *)
(***************************************************************************)
HasCollection(colls, name) == name \in DOMAIN colls

WithCollection(colls, name, entries) ==
    [k \in DOMAIN colls \cup {name} |-> IF k = name THEN entries ELSE colls[k]]

WithoutCollection(colls, name) == [k \in DOMAIN colls \ {name} |-> colls[k]]

create_vector_store_add_unchecked(colls, file_id, text, embed_ok) ==
    LET chunks == chunk_text(text)
        entries == [i \in 1..Len(chunks) |->
                       [id |-> ChunkId(file_id, i - 1), document |-> chunks[i],
                        metadata |-> [chunk_index |-> i - 1]]]
    IN  IF HasCollection(colls, file_id)
        THEN [colls |-> colls, ret |-> Raise("ChromaError", "collection exists")]
        ELSE IF Len(chunks) = 0 \/ ~embed_ok
        THEN [colls |-> WithCollection(colls, file_id, <<>>), ret |-> Ok(file_id)]
        ELSE [colls |-> WithCollection(colls, file_id, entries), ret |-> Ok(file_id)]

create_vector_store_from_one(colls, file_id, text, embed_ok) ==
    LET chunks == chunk_text(text)
        entries == [i \in 1..Len(chunks) |->
                       [id |-> ChunkId(file_id, i), document |-> chunks[i],
                        metadata |-> [chunk_index |-> i]]]
    IN  IF HasCollection(colls, file_id)
        THEN [colls |-> colls, ret |-> Raise("ChromaError", "collection exists")]
        ELSE IF Len(chunks) = 0 \/ ~embed_ok
        THEN [colls |-> WithCollection(colls, file_id, <<>>),
              ret |-> Raise("ChromaError", "add failed")]
        ELSE [colls |-> WithCollection(colls, file_id, entries), ret |-> Ok(file_id)]

\* rag.create_vector_store(file_id, text).  embed_ok: whether the embedding
\* call made by collection.add succeeds.  Returns the collections afterwards
\* and the value returned or the exception raised.
create_vector_store(colls, file_id, text, embed_ok) ==
    LET chunks == chunk_text(text)
        entries == [i \in 1..Len(chunks) |->
                       [id |-> ChunkId(file_id, i - 1), document |-> chunks[i],
                        metadata |-> [chunk_index |-> i - 1]]]
    IN  IF HasCollection(colls, file_id)
        THEN [colls |-> colls, ret |-> Raise("ChromaError", "collection exists")]
        ELSE IF Len(chunks) = 0 \/ ~embed_ok
        THEN [colls |-> WithCollection(colls, file_id, <<>>),
              ret |-> Raise("ChromaError", "add failed")]
        ELSE [colls |-> WithCollection(colls, file_id, entries), ret |-> Ok(file_id)]

delete_vector_store_unguarded(colls, file_id) ==
    IF HasCollection(colls, file_id)
    THEN [colls |-> WithoutCollection(colls, file_id), ret |-> Ok(None)]
    ELSE [colls |-> colls, ret |-> Raise("ChromaError", "collection does not exist")]

\* rag.delete_vector_store(file_id): delete_collection raises when there is
\* no such collection, and the except clause swallows it
delete_vector_store(colls, file_id) ==
    IF HasCollection(colls, file_id)
    THEN [colls |-> WithoutCollection(colls, file_id), ret |-> Ok(None)]
    ELSE [colls |-> colls, ret |-> Ok(None)]

(***************************************************************************)
(* schema.QueryExpansion and rag.expand_query.  expanded_queries is the    *)
(* list the text-generation call answers with; instructor validates it     *)
(* against the response model and raises when it does not conform.         *)
(***************************************************************************)
MIN_EXPANDED_QUERIES == 3
MAX_EXPANDED_QUERIES == 5

QueryExpansionAtLeastTwo(expanded_queries) ==
    /\ Len(expanded_queries) >= MIN_EXPANDED_QUERIES - 1
    /\ Len(expanded_queries) <= MAX_EXPANDED_QUERIES

QueryExpansionValid(expanded_queries) ==
    /\ Len(expanded_queries) >= MIN_EXPANDED_QUERIES
    /\ Len(expanded_queries) <= MAX_EXPANDED_QUERIES

expand_query_unchecked(user_query, expanded_queries) ==
    Ok(<<user_query>> \o expanded_queries)

expand_query(user_query, expanded_queries) ==
    IF ~QueryExpansionValid(expanded_queries)
    THEN Raise("ValidationError", "expanded_queries")
    ELSE Ok(<<user_query>> \o expanded_queries)

(***************************************************************************)
(* rag.retrieve_chunks, one step per external call.  seen_chunks is the    *)
(* dict of the source, held as the sequence of its items in insertion      *)
(* order.  expansions counts the text-generation calls made and expanded   *)
(* is the answer of the call; returned records every chunk id any lookup   *)
(* has answered with, lookups the number of lookups made.                  *)
(***************************************************************************)
Keys(items) == {items[i].id : i \in DOMAIN items}

MergeHitsNoDedup(seen_chunks, hits) ==
    seen_chunks \o [i \in DOMAIN hits |->
                       [id |-> hits[i].id, document |-> hits[i].document]]

MergeHitsLastWins(seen_chunks, hits) ==
    LET kept == [i \in DOMAIN seen_chunks |->
                    LET later == {j \in DOMAIN hits : hits[j].id = seen_chunks[i].id}
                    IN  IF later = {} THEN seen_chunks[i]
                        ELSE [id |-> seen_chunks[i].id,
                              document |-> hits[CHOOSE j \in later : \A k \in later : k <= j].document]]
        fresh == SelectSeq(hits, LAMBDA h : h.id \notin Keys(seen_chunks))
    IN  kept \o [i \in DOMAIN fresh |-> [id |-> fresh[i].id, document |-> fresh[i].document]]

\* the loop over zip(results["ids"][0], results["documents"][0])
RECURSIVE MergeHits(_, _)
MergeHits(seen_chunks, hits) ==
    IF hits = <<>> THEN seen_chunks
    ELSE LET h == Head(hits)
         IN  IF h.id \notin Keys(seen_chunks)
             THEN MergeHits(Append(seen_chunks,
                                   [id |-> h.id, document |-> h.document]),
                            Tail(hits))
             ELSE MergeHits(seen_chunks, Tail(hits))

\* insert x after every item whose key is not greater: the sort is stable
RECURSIVE InsertByKey(_, _)
InsertByKey(sorted, x) ==
    IF sorted = <<>> THEN <<x>>
    ELSE IF SortKey(Head(sorted).id).val <= SortKey(x.id).val
         THEN <<Head(sorted)>> \o InsertByKey(Tail(sorted), x)
         ELSE <<x>> \o sorted

SortedByArrival(items) == items

RECURSIVE SortedByKey(_)
SortedByKey(items) ==
    IF items = <<>> THEN <<>>
    ELSE InsertByKey(SortedByKey(SubSeq(items, 1, Len(items) - 1)),
                     items[Len(items)])

BLANK_LINE == Lit(<<"\n", "\n">>)

AssembleUnsorted(seen_chunks) ==
    Ok(Join(BLANK_LINE, [i \in DOMAIN seen_chunks |-> seen_chunks[i].document]))

\* sorted(seen_chunks.items(), key=...) and "\n\n".join(...)
Assemble(seen_chunks) ==
    LET bad == {i \in DOMAIN seen_chunks : ~SortKey(seen_chunks[i].id).ok}
    IN  IF bad # {}
        THEN SortKey(seen_chunks[CHOOSE i \in bad : \A j \in bad : i <= j].id)
        ELSE LET sorted_chunks == SortedByKey(seen_chunks)
             IN  Ok(Join(BLANK_LINE,
                         [i \in DOMAIN sorted_chunks |-> sorted_chunks[i].document]))

RqDone(r, ret) == [r EXCEPT !.pc = "done", !.ret = ret]

RqBeginGetOrCreate(colls, file_id, user_query, expanded_queries) ==
    LET r0 == [pc |-> "query", file_id |-> file_id, user_query |-> user_query,
               expansions |-> 0, expanded |-> <<>>, queries |-> <<>>, i |-> 1,
               seen_chunks |-> <<>>, returned |-> {}, lookups |-> 0,
               ret |-> None]
        r1 == [r0 EXCEPT !.expansions = 1, !.expanded = expanded_queries]
        e == expand_query(user_query, expanded_queries)
    IN  IF ~e.ok THEN RqDone(r1, e)
        ELSE IF ~HasCollection(colls, file_id)
        THEN RqDone([r1 EXCEPT !.queries = e.val, !.i = Len(e.val) + 1,
                               !.lookups = Len(e.val)],
                    Ok(<<>>))
        ELSE [r1 EXCEPT !.queries = e.val]

\* get_collection, then expand_query
RqBegin(colls, file_id, user_query, expanded_queries) ==
    LET r0 == [pc |-> "query", file_id |-> file_id, user_query |-> user_query,
               expansions |-> 0, expanded |-> <<>>, queries |-> <<>>, i |-> 1,
               seen_chunks |-> <<>>, returned |-> {}, lookups |-> 0,
               ret |-> None]
        r1 == [r0 EXCEPT !.expansions = 1, !.expanded = expanded_queries]
    IN  IF ~HasCollection(colls, file_id)
        THEN RqDone(r0, Raise("ChromaError", "collection does not exist"))
        ELSE LET e == expand_query(user_query, expanded_queries)
             IN  IF ~e.ok THEN RqDone(r1, e)
                 ELSE [r1 EXCEPT !.queries = e.val]

\* one iteration of the loop over queries: collection.query answers with
\* hits, or raises; after the last query the chunks are sorted and joined
RqQuery(r, outcome) ==
    IF ~outcome.ok
    THEN RqDone([r EXCEPT !.lookups = r.lookups + 1],
                Raise("QueryError", "collection.query failed"))
    ELSE LET r1 == [r EXCEPT !.i = r.i + 1,
                             !.seen_chunks = MergeHits(r.seen_chunks, outcome.val),
                             !.returned = r.returned \cup Keys(outcome.val),
                             !.lookups = r.lookups + 1]
         IN  IF r.i = Len(r.queries)
             THEN RqDone(r1, Assemble(r1.seen_chunks))
             ELSE r1

\* what collection.query may answer with: a ranked list of distinct entries
\* of the collection, at most n_results of them and at least one unless the
\* collection is empty
RankedHits(entries, n_results) ==
    LET m == Min(Min(MaxHits, n_results), Len(entries))
        picks == UNION {[1..k -> DOMAIN entries] : k \in Min(1, m)..m}
    IN  {[i \in DOMAIN pk |-> entries[pk[i]]] :
            pk \in {q \in picks : \A a, b \in DOMAIN q : a # b => q[a] # q[b]}}

\* str(uuid.uuid4()): the k-th identifier drawn; no two draws are equal
Uuid(k) == <<"d", "0", "c", "-", "4">> \o Str(k)

(***************************************************************************)
(* Initial values of the program's state: nothing uploaded, no collection, *)
(* no request served.                                                      *)
(***************************************************************************)
EmptyMap == [k \in {} |-> None]

ProgramInit ==
    /\ document_store = EmptyMap
    /\ collections = EmptyMap
    /\ tmp_files = {}
    /\ uuid_count = 0
    /\ response = None
    /\ rq = None

program == <<document_store, collections, tmp_files, uuid_count, response, rq>>

Input(a) == [fn |-> "input", arg |-> a, ret |-> None]
Returned(f, a, r) == [fn |-> f, arg |-> a, ret |-> r]

(***************************************************************************)
(* SpecGuard: the size guard and the tier classifier applied to integers   *)
(* around their ceilings.                                                  *)
(***************************************************************************)
Around(c) == (c - Margin)..(c + Margin)

GuardInputs ==
    {0} \cup Around(DIRECT_TOKEN_LIMIT) \cup Around(MAX_TOKEN_LIMIT)
        \cup Around(MAX_FILE_SIZE_BYTES)

InitGuard == ProgramInit /\ call \in {Input(n) : n \in GuardInputs}

CallDetermineTier ==
    /\ call.fn = "input"
    /\ call' = Returned("determine_tier", call.arg, determine_tier(call.arg))
    /\ UNCHANGED program

CallValidateTokenCount ==
    /\ call.fn = "input"
    /\ call' = Returned("validate_token_count", call.arg,
                        validate_token_count(call.arg))
    /\ UNCHANGED program

CallValidateFileSize ==
    /\ call.fn = "input"
    /\ call' = Returned("validate_file_size", call.arg,
                        validate_file_size(call.arg))
    /\ UNCHANGED program

NextGuard == CallDetermineTier \/ CallValidateTokenCount \/ CallValidateFileSize

SpecGuard == InitGuard /\ [][NextGuard]_vars

\* the number a formatted value shows: its digits, separators dropped
ShownNumber(formatted) == DigitsValue(SelectSeq(formatted, IsDigit))

\* C14: validate_token_count accepts every token count up to and including
\* 120,000 and raises for every count above; the message of the exception
\* shows the count measured and the ceiling of 120,000 (for 120,001 it
\* shows 120,001 and 120,000).
TokenCeiling ==
    call.fn = "validate_token_count" =>
        IF call.arg <= 120000 THEN call.ret = Ok(None)
        ELSE /\ ~call.ret.ok /\ call.ret.exc = "ValueError"
             /\ ShownNumber(call.ret.detail.args[1]) = call.arg
             /\ ShownNumber(call.ret.detail.args[2]) = 120000
             /\ call.arg = 120001 =>
                    call.ret.detail.args
                        = << <<"1", "2", "0", ",", "0", "0", "1">>,
                             <<"1", "2", "0", ",", "0", "0", "0">> >>

TokenCeilingWitness ==
    /\ call.fn = "validate_token_count" /\ call.arg = 120001
    /\ ~call.ret.ok

\* C15: validate_file_size accepts every byte length up to and including
\* 3 MiB = 3 * 1024 * 1024 bytes and raises for every byte length above.
SizeCeiling ==
    call.fn = "validate_file_size" =>
        /\ call.ret.ok <=> call.arg <= 3 * 1024 * 1024
        /\ call.ret.ok => call.ret = Ok(None)
        /\ ~call.ret.ok => call.ret.exc = "ValueError"

SizeCeilingWitness ==
    /\ call.fn = "validate_file_size" /\ call.arg = 3 * 1024 * 1024 + 1
    /\ ~call.ret.ok

\* C1: determine_tier is total on token counts and answers "direct" exactly
\* when the count is at most 80,000 and "rag" (the indexed tier) exactly when
\* it is above; 80,000 is direct and 80,001 is rag.
TierThreshold ==
    call.fn = "determine_tier" =>
        /\ call.ret \in {"direct", "rag"}
        /\ (call.ret = "direct") <=> (call.arg <= 80000)
        /\ (call.ret = "rag") <=> (call.arg > 80000)
        /\ call.arg = 80000 => call.ret = "direct"
        /\ call.arg = 80001 => call.ret = "rag"

TierThresholdWitness ==
    call.fn = "determine_tier" /\ call.arg = 80000 /\ call.ret = "direct"

(***************************************************************************)
(* SpecIds: a chunk identifier is formatted for a file id and an ordinal,  *)
(* and the retriever's sort key is computed from it.                       *)
(***************************************************************************)
IdInputs ==
    {Uuid(1), Uuid(12),
     <<"d", "o", "c">>,
     <<"m", "y", "_", "c", "h", "u", "n", "k", "s">>,
     <<"a">> \o CHUNK_MARK \o <<"7">>,
     <<"x">> \o CHUNK_MARK \o <<"y">>}

InitIds ==
    /\ ProgramInit
    /\ call \in {Input([file_id |-> d, i |-> i]) :
                    d \in IdInputs, i \in 0..MaxOrdinal}

CallSortKey ==
    /\ call.fn = "input"
    /\ call' = Returned("sort_key", call.arg,
                        SortKey(ChunkId(call.arg.file_id, call.arg.i)))
    /\ UNCHANGED program

NextIds == CallSortKey

SpecIds == InitIds /\ [][NextIds]_vars

\* C9: for every document identifier d and ordinal i, the ordinal the
\* retriever parses from the identifier {d}_chunk_{i} is i, also when d
\* itself contains _chunk_.
OrdinalRoundTrip ==
    call.fn = "sort_key" => call.ret.ok /\ call.ret.val = call.arg.i

(***************************************************************************)
(* SpecTruncate: truncate_text applied to short texts and small budgets,   *)
(* and applied again to its own result.                                    *)
(***************************************************************************)
TruncChars == {"a", ".", " ", "\n"}

SeqsUpTo(S, n) == UNION {[1..m -> S] : m \in 0..n}

TruncInputs ==
    {[text |-> Lit(cs), max_tokens |-> k] :
        cs \in SeqsUpTo(TruncChars, MaxTextLen), k \in 0..MaxBudget}

InitTruncate == ProgramInit /\ call \in {Input(a) : a \in TruncInputs}

CallTruncate ==
    /\ call.fn = "input"
    /\ call' = Returned("truncate_text", call.arg,
                        truncate_text(call.arg.text, call.arg.max_tokens,
                                      TRUNCATE_DEFAULT_MODEL))
    /\ UNCHANGED program

CallTruncateAgain ==
    /\ call.fn = "truncate_text"
    /\ call' = Returned("truncate_text_again",
                        [text |-> call.ret, max_tokens |-> call.arg.max_tokens],
                        truncate_text(call.ret, call.arg.max_tokens,
                                      TRUNCATE_DEFAULT_MODEL))
    /\ UNCHANGED program

NextTruncate == CallTruncate \/ CallTruncateAgain

SpecTruncate == InitTruncate /\ [][NextTruncate]_vars

\* text[:m], the first m characters of a text
RECURSIVE StrPrefix(_, _)
StrPrefix(t, m) ==
    IF m <= 0 \/ t = <<>> THEN <<>>
    ELSE IF t[1].n >= m THEN <<Run(t[1].ch, m)>>
    ELSE Cat(<<t[1]>>, StrPrefix(Tail(t), m - t[1].n))

\* C3: the token count of truncate(text, k), measured with the same
\* tokenizer, is at most k for every text and every budget k >= 0, also when
\* the truncation marker was appended.
TruncateWithinBudget ==
    call.fn = "truncate_text" => count_tokens(call.ret) <= call.arg.max_tokens

\* C4: truncating the result of a truncation again with the same budget
\* returns it unchanged.
TruncateIdempotent ==
    call.fn = "truncate_text_again" => call.ret = call.arg.text

\* C5: truncate returns the text unchanged when its token count is within
\* max_tokens; otherwise it returns the characters of exactly the first
\* max_tokens tokens of the text, cut under the encoding count_tokens uses,
\* followed by the truncation marker.
TruncatePrefixCut ==
    call.fn = "truncate_text" =>
        LET text == call.arg.text
            k == call.arg.max_tokens
            tokens == Encode(encoding_for_model(LLM_MODEL), text)
            cut == StrLen(Decode(SubSeq(tokens, 1, k)))
        IN  /\ Len(tokens) = count_tokens(text)
            /\ Decode(tokens) = text
            /\ IF count_tokens(text) <= k
               THEN call.ret = text
               ELSE call.ret = Cat(StrPrefix(text, cut), TRUNCATION_MARKER)

TruncatePrefixCutWitness ==
    /\ call.fn = "truncate_text"
    /\ call.arg.text = Lit(<<".", ".", "a">>)
    /\ call.arg.max_tokens = 1
    /\ call.ret = Cat(Lit(<<".">>), TRUNCATION_MARKER)

(***************************************************************************)
(* SpecRag: a document is indexed under a fresh file id and retrieved      *)
(* from, the text-generation call and the nearest-neighbour lookups        *)
(* answering in every way they can.  The input names the document by its   *)
(* number of words.                                                        *)
(***************************************************************************)
WordLetters == <<"a", "b", "c", "d", "e", "f", "i">>

\* a document of nw words; the words differ with a period of 7, separated by
\* a space, two spaces after every 4th word and a newline after every 10th
DocWords(nw) ==
    [i \in 1..(2 * nw - 1) |->
        LET j == (i + 1) \div 2
        IN  IF i % 2 = 1 THEN Run(WordLetters[(j % 7) + 1], 1 + (j % 2))
            ELSE IF j % 10 = 0 THEN Run("\n", 1)
            ELSE IF j % 4 = 0 THEN Run(" ", 2)
            ELSE Run(" ", 1)]

ChunkStep == WordsFor(CHUNK_SIZE_TOKENS) - WordsFor(CHUNK_OVERLAP_TOKENS)

RagWordCounts ==
    {0, 1, WordsFor(CHUNK_SIZE_TOKENS)}
        \cup {k * ChunkStep + 1 : k \in 1..(MaxChunks - 1)}

VariantNames == <<"v1", "v2", "v3", "v4", "v5", "v6", "v7", "v8">>

\* the answers of the text-generation call: 0 .. MaxVariants variants
VariantLists == {SubSeq(VariantNames, 1, n) : n \in 0..MaxVariants}

QueryOutcomes(entries) ==
    {Raise("QueryError", "collection.query failed")}
        \cup {Ok(h) : h \in RankedHits(entries, TOP_K_CHUNKS)}

InitRag ==
    /\ ProgramInit
    /\ call \in {Input([file_id |-> Uuid(1), words |-> nw]) :
                    nw \in RagWordCounts}

CallCreateVectorStore ==
    /\ rq = None /\ call.fn \in {"input", "create_vector_store"}
    /\ \E embed_ok \in BOOLEAN :
          LET r == create_vector_store(collections, call.arg.file_id,
                                       DocWords(call.arg.words), embed_ok)
          IN  /\ collections' = r.colls
              /\ call' = Returned("create_vector_store",
                                  [file_id |-> call.arg.file_id,
                                   words |-> call.arg.words], r.ret)
    /\ UNCHANGED <<document_store, tmp_files, uuid_count, response, rq>>

CallDeleteVectorStore ==
    /\ rq = None /\ call.fn \in {"input", "create_vector_store"}
    /\ LET r == delete_vector_store(collections, call.arg.file_id)
       IN  /\ collections' = r.colls
           /\ call' = Returned("delete_vector_store",
                               [file_id |-> call.arg.file_id,
                                words |-> call.arg.words,
                                existed |-> HasCollection(collections,
                                                          call.arg.file_id)],
                               r.ret)
    /\ UNCHANGED <<document_store, tmp_files, uuid_count, response, rq>>

RetrieveBegin ==
    /\ rq = None
    /\ call.fn \in {"input", "create_vector_store", "delete_vector_store"}
    /\ \E expanded_queries \in VariantLists :
          rq' = RqBegin(collections, call.arg.file_id, "q", expanded_queries)
    /\ UNCHANGED <<document_store, collections, tmp_files, uuid_count,
                   response, call>>

RetrieveQuery ==
    /\ rq # None /\ rq.pc = "query"
    /\ \E outcome \in QueryOutcomes(collections[rq.file_id]) :
          rq' = RqQuery(rq, outcome)
    /\ UNCHANGED <<document_store, collections, tmp_files, uuid_count,
                   response, call>>

RetrieveReturn ==
    /\ rq # None /\ rq.pc = "done"
    /\ call' = Returned("retrieve_chunks",
                        [file_id |-> call.arg.file_id,
                         words |-> call.arg.words, rq |-> rq], rq.ret)
    /\ rq' = None
    /\ UNCHANGED <<document_store, collections, tmp_files, uuid_count, response>>

NextRag ==
    \/ CallCreateVectorStore
    \/ CallDeleteVectorStore
    \/ RetrieveBegin
    \/ RetrieveQuery
    \/ RetrieveReturn

SpecRag == InitRag /\ [][NextRag]_vars

\* the chunk texts of an assembled retrieval output: chunk texts hold no
\* newline, so the output falls apart at its newlines
OutputParts(out) == SplitR({"\n"}, out, 1, Len(out))

Retrieved == call.fn = "retrieve_chunks" /\ call.ret.ok

EntryOf(id) ==
    LET entries == collections[call.arg.file_id]
    IN  entries[CHOOSE i \in DOMAIN entries : entries[i].id = id]

\* C6: a chunk identifier that appears in the results of one or more
\* expanded queries contributes its text exactly once to the assembled
\* output; the output holds as many chunk texts as there are distinct chunk
\* identifiers over all result lists.
MergeDedups ==
    Retrieved =>
        LET parts == OutputParts(call.ret.val)
            ids == call.arg.rq.returned
        IN  /\ Len(parts) = Cardinality(ids)
            /\ \A id \in ids :
                  Cardinality({i \in DOMAIN parts : parts[i] = EntryOf(id).document})
                      = Cardinality({o \in ids :
                                        EntryOf(o).document = EntryOf(id).document})

\* every lookup answers with at least one chunk of a collection that has
\* chunks: here one chunk of two was in the results of all four queries
MergeDedupsWitness ==
    /\ Retrieved
    /\ call.arg.rq.lookups = 4
    /\ Cardinality(call.arg.rq.returned) = 1
    /\ Len(call.arg.rq.seen_chunks) = 1
    /\ Len(collections[call.arg.file_id]) = 2

\* C7: any two chunks of a retrieval result stand in the assembled text in
\* the order of their ordinals, whatever their similarity ranks and
\* whichever query returned them, joined by a blank line.
DocumentOrder ==
    Retrieved =>
        LET ids == call.arg.rq.returned
            ords == {EntryOf(id).metadata.chunk_index : id \in ids}
            nth(k) == CHOOSE x \in ords : Cardinality({y \in ords : y < x}) = k - 1
            docOf(x) == LET id == CHOOSE o \in ids :
                                      EntryOf(o).metadata.chunk_index = x
                        IN  EntryOf(id).document
        IN  call.ret.val =
                Join(BLANK_LINE, [k \in 1..Cardinality(ords) |-> docOf(nth(k))])

\* a result whose first-seen chunk is not the first of the document
DocumentOrderWitness ==
    /\ Retrieved
    /\ Len(call.arg.rq.seen_chunks) >= 2
    /\ EntryOf(call.arg.rq.seen_chunks[1].id).metadata.chunk_index
           > EntryOf(call.arg.rq.seen_chunks[2].id).metadata.chunk_index

\* C8: create(d, text) stores the chunks in chunker order under the
\* identifiers {d}_chunk_0, {d}_chunk_1, ..., {d}_chunk_{n-1}: ordinals
\* 0-based, increasing and gapless, the i-th identifier with the i-th text.
ChunkIdsGapless ==
    (call.fn = "create_vector_store" /\ call.ret.ok) =>
        LET d == call.arg.file_id
            chunks == chunk_text(DocWords(call.arg.words))
            entries == collections[d]
        IN  /\ call.ret.val = d
            /\ Len(entries) = Len(chunks)
            /\ \A i \in DOMAIN entries :
                  /\ entries[i].id = d \o CHUNK_MARK \o Str(i - 1)
                  /\ entries[i].document = chunks[i]
                  /\ SortKeyLast(entries[i].id) = Ok(i - 1)

ChunkIdsGaplessWitness ==
    /\ call.fn = "create_vector_store" /\ call.ret.ok
    /\ Len(collections[call.arg.file_id]) = MaxChunks

\* C10 as stated: expand returns exactly 4 strings, the original query and
\* exactly 3 variants; an answer with any other number of variants is
\* rejected.
ExpandExactlyFour ==
    rq # None =>
        /\ rq.queries # <<>> => Len(rq.queries) = 4
        /\ (HasCollection(collections, rq.file_id) /\ Len(rq.expanded) # 3)
               => (rq.pc = "done" /\ ~rq.ret.ok /\ rq.ret.exc = "ValidationError")

\* C10 amended: expand returns the original query followed by the 3 to 5
\* variants of the answer, unchanged and in order; an answer with fewer
\* than 3 or more than 5 variants is rejected and no lookup is made.
ExpandThreeToFive ==
    (rq # None /\ HasCollection(collections, rq.file_id)) =>
        IF Len(rq.expanded) >= 3 /\ Len(rq.expanded) <= 5
        THEN rq.queries = <<rq.user_query>> \o rq.expanded
        ELSE /\ rq.pc = "done" /\ ~rq.ret.ok /\ rq.ret.exc = "ValidationError"
             /\ rq.queries = <<>> /\ rq.lookups = 0

ExpandThreeToFiveWitness ==
    /\ rq # None /\ rq.pc = "query"
    /\ Len(rq.queries) = 6 /\ rq.queries[1] = rq.user_query

\* C11: when the text-generation call answers with 2 variants, expansion
\* raises and retrieve_chunks raises with it: no lookup is made with the
\* original query and the 2 variants, and no text is returned.
ExpansionShortFails ==
    /\ (rq # None /\ rq.expansions = 1 /\ Len(rq.expanded) = 2) =>
           /\ rq.pc = "done" /\ ~rq.ret.ok /\ rq.ret.exc = "ValidationError"
           /\ rq.queries = <<>> /\ rq.lookups = 0
    /\ (call.fn = "retrieve_chunks" /\ call.arg.rq.expansions = 1
            /\ Len(call.arg.rq.expanded) = 2) =>
           /\ ~call.ret.ok /\ call.ret.exc = "ValidationError"
           /\ call.arg.rq.lookups = 0 /\ call.arg.rq.seen_chunks = <<>>

ExpansionShortFailsWitness ==
    /\ call.fn = "retrieve_chunks" /\ ~call.ret.ok
    /\ call.arg.rq.expansions = 1 /\ Len(call.arg.rq.expanded) = 2
    /\ Len(collections[call.arg.file_id]) = 2

\* C12: a retrieval from a collection that does not exist, because it was
\* never created or was deleted, raises; it returns no text, empty or
\* partial, and raises before the text-generation call and before any
\* lookup.
MissingCollectionFails ==
    /\ (rq # None /\ ~HasCollection(collections, rq.file_id)) =>
           /\ rq.pc = "done" /\ ~rq.ret.ok /\ rq.ret.exc = "ChromaError"
           /\ rq.expansions = 0 /\ rq.lookups = 0
    /\ (call.fn = "retrieve_chunks"
            /\ ~HasCollection(collections, call.arg.file_id)) =>
           /\ ~call.ret.ok /\ call.ret.exc = "ChromaError"
           /\ call.arg.rq.expansions = 0 /\ call.arg.rq.lookups = 0

\* the retrieval that follows the deletion of a collection that had chunks
MissingCollectionFailsWitness ==
    /\ call.fn = "delete_vector_store" /\ call.arg.existed
    /\ call.arg.words > 0
    /\ rq # None /\ rq.pc = "done" /\ ~rq.ret.ok
    /\ ~HasCollection(collections, rq.file_id)

\* C13: when the lookup for one query fails although the collection exists,
\* that query's results are dropped and the retrieval still returns the text
\* assembled from the other queries' results: a retrieval from an existing
\* collection whose expansion succeeded returns text.
TransientLookupDegrades ==
    (call.fn = "retrieve_chunks"
        /\ HasCollection(collections, call.arg.file_id)
        /\ call.arg.rq.queries # <<>>) =>
        /\ call.ret.ok
        /\ call.arg.rq.lookups = Len(call.arg.rq.queries)

(***************************************************************************)
(* SpecMerge: retrieve_chunks over the result lists that collection.query  *)
(* can hand to its merge loop, lists in which the copies of a chunk differ *)
(* included.  call.arg.lists records the lists answered so far.            *)
(***************************************************************************)
MergeTexts == {Lit(<<"x">>), Lit(<<"y">>)}

MergeOrdinals == {0, 1}

\* a collection of two chunks
MergeCollection ==
    <<[id |-> ChunkId(Uuid(1), 0), document |-> Lit(<<"x">>),
       metadata |-> [chunk_index |-> 0]],
      [id |-> ChunkId(Uuid(1), 1), document |-> Lit(<<"y">>),
       metadata |-> [chunk_index |-> 1]]>>

\* results["ids"][0] zipped with results["documents"][0]: no id twice
ResultLists ==
    LET hits == {[id |-> ChunkId(Uuid(1), k), document |-> t] :
                    k \in MergeOrdinals, t \in MergeTexts}
        lists == UNION {[1..n -> hits] : n \in 0..Min(MaxHits, TOP_K_CHUNKS)}
    IN  {l \in lists : \A a, b \in DOMAIN l : a # b => l[a].id # l[b].id}

InitMerge ==
    /\ document_store = EmptyMap
    /\ collections = WithCollection(EmptyMap, Uuid(1), MergeCollection)
    /\ tmp_files = {}
    /\ uuid_count = 1
    /\ response = None
    /\ rq = None
    /\ call = Input([file_id |-> Uuid(1), lists |-> <<>>])

\* get_collection and expand_query: the original query and three variants
MergeBegin ==
    /\ rq = None /\ call.fn = "input"
    /\ rq' = RqBegin(collections, call.arg.file_id, "q",
                     SubSeq(VariantNames, 1, MIN_EXPANDED_QUERIES))
    /\ UNCHANGED <<document_store, collections, tmp_files, uuid_count,
                   response, call>>

\* one lookup and the merge of its result list
MergeLookup ==
    /\ rq # None /\ rq.pc = "query"
    /\ \E hits \in ResultLists :
          /\ rq' = RqQuery(rq, Ok(hits))
          /\ call' = [call EXCEPT !.arg.lists = Append(@, hits)]
    /\ UNCHANGED <<document_store, collections, tmp_files, uuid_count, response>>

MergeReturn ==
    /\ rq # None /\ rq.pc = "done"
    /\ call' = Returned("retrieve_chunks",
                        [file_id |-> call.arg.file_id,
                         lists |-> call.arg.lists, rq |-> rq], rq.ret)
    /\ rq' = None
    /\ UNCHANGED <<document_store, collections, tmp_files, uuid_count, response>>

NextMerge == MergeBegin \/ MergeLookup \/ MergeReturn

SpecMerge == InitMerge /\ [][NextMerge]_vars

\* the places (list, rank) at which the lists hold a copy of the chunk id
CopiesOf(lists, id) ==
    {p \in (DOMAIN lists) \X (1..TOP_K_CHUNKS) :
        p[2] \in DOMAIN lists[p[1]] /\ lists[p[1]][p[2]].id = id}

\* the text of the copy in the earliest list that holds one
FirstCopy(lists, id) ==
    LET first == CHOOSE p \in CopiesOf(lists, id) :
                     \A q \in CopiesOf(lists, id) : p[1] <= q[1]
    IN  lists[first[1]][first[2]].document

\* C24: the merge is first-seen-wins: the text kept for a chunk id is the
\* text of its copy in the earliest result list, in the order of the
\* expanded queries, that holds the id; the copy of a later list never
\* takes its place, also when the copies differ.
FirstSeenWins ==
    (rq # None /\ call.fn = "input") =>
        /\ Keys(rq.seen_chunks) =
               {id \in {ChunkId(Uuid(1), k) : k \in MergeOrdinals} :
                   CopiesOf(call.arg.lists, id) # {}}
        /\ \A i \in DOMAIN rq.seen_chunks :
               rq.seen_chunks[i].document =
                   FirstCopy(call.arg.lists, rq.seen_chunks[i].id)
        /\ \A i, j \in DOMAIN rq.seen_chunks :
               i # j => rq.seen_chunks[i].id # rq.seen_chunks[j].id

\* a later list held a copy with another text than the first one
FirstSeenWinsWitness ==
    /\ rq # None /\ call.fn = "input" /\ rq.pc = "done" /\ rq.ret.ok
    /\ \E id \in Keys(rq.seen_chunks) :
           \E p, q \in CopiesOf(call.arg.lists, id) :
               /\ p[1] < q[1]
               /\ call.arg.lists[p[1]][p[2]].document #
                      call.arg.lists[q[1]][q[2]].document
               /\ \A i \in DOMAIN rq.seen_chunks :
                      rq.seen_chunks[i].id = id =>
                          rq.seen_chunks[i].document =
                              call.arg.lists[p[1]][p[2]].document

\* every copy of a chunk id has the same text
OneTextPerId(lists) ==
    \A id \in {ChunkId(Uuid(1), k) : k \in MergeOrdinals} :
        \A p, q \in CopiesOf(lists, id) :
            lists[p[1]][p[2]].document = lists[q[1]][q[2]].document

\* the texts of the ordinals in the set, in ascending order
RECURSIVE TextsAscending(_, _)
TextsAscending(lists, ordinals) ==
    IF ordinals = {} THEN <<>>
    ELSE LET least == CHOOSE o \in ordinals : \A k \in ordinals : o <= k
         IN  <<FirstCopy(lists, ChunkId(Uuid(1), least))>>
                 \o TextsAscending(lists, ordinals \ {least})

\* C28: when every chunk id has a single text, the text retrieve_chunks
\* returns is the same for every order in which the result lists of the
\* queries are merged: it is the texts of the chunk ids that some list
\* holds, each once, in ascending order of their ordinals, whatever list
\* and rank they came from.
MergeOrderFree ==
    (call.fn = "retrieve_chunks" /\ OneTextPerId(call.arg.lists)) =>
        LET found == {k \in MergeOrdinals :
                         CopiesOf(call.arg.lists, ChunkId(Uuid(1), k)) # {}}
        IN  /\ call.ret.ok
            /\ OutputParts(call.ret.val) =
                   TextsAscending(call.arg.lists, found)
            /\ call.ret.val =
                   Join(BLANK_LINE, TextsAscending(call.arg.lists, found))

\* the chunk of the higher ordinal was merged first
MergeOrderFreeWitness ==
    /\ call.fn = "retrieve_chunks" /\ OneTextPerId(call.arg.lists)
    /\ call.ret.ok
    /\ Len(call.arg.rq.seen_chunks) = 2
    /\ call.arg.rq.seen_chunks[1].id = ChunkId(Uuid(1), 1)
    /\ \E a, b \in DOMAIN call.arg.lists :
           /\ a # b
           /\ Len(call.arg.lists[a]) = 2 /\ Len(call.arg.lists[b]) = 2
           /\ call.arg.lists[a][1] = call.arg.lists[b][2]
           /\ call.arg.lists[a][2] = call.arg.lists[b][1]

(***************************************************************************)
(* SpecChunk: rag_pipeline.chunk_text(text, chunk_size, overlap), one step *)
(* per turn of its while loop.  rag.chunk_text is the same code with       *)
(* chunk_size and overlap fixed to CHUNK_SIZE_TOKENS and                   *)
(* CHUNK_OVERLAP_TOKENS.  The input names the text by its number of words. *)
(***************************************************************************)
SmallChunkSizes == {2, 3, 4}
SmallOverlaps == {0, 2, 3, 4}

ChunkInputs ==
    {[words |-> nw, chunk_size |-> CHUNK_SIZE_TOKENS,
      overlap |-> CHUNK_OVERLAP_TOKENS] :
        nw \in {0, 1, 500, ChunkStep + 1, WordsFor(CHUNK_SIZE_TOKENS),
                WordsFor(CHUNK_SIZE_TOKENS) + 1}}
    \cup {[words |-> nw, chunk_size |-> cs, overlap |-> ov] :
              nw \in 0..MaxWords, cs \in SmallChunkSizes, ov \in SmallOverlaps}

InitChunk == ProgramInit /\ call \in {Input(a) : a \in ChunkInputs}

\* words = text.split() and the two conversions to words
ChunkBegin ==
    /\ call.fn = "input"
    /\ call' = [fn |-> "chunk_loop", arg |-> call.arg, ret |-> None,
                words_per_chunk |-> WordsFor(call.arg.chunk_size),
                overlap_words |-> WordsFor(call.arg.overlap),
                start |-> 0, end |-> None, chunks |-> <<>>]
    /\ UNCHANGED program

\* one turn of the loop
ChunkIterate ==
    /\ call.fn = "chunk_loop"
    /\ Len(call.chunks) < MaxLoop
    /\ LET words == Split(DocWords(call.arg.words))
           end == call.start + call.words_per_chunk
       IN  /\ call.start < Len(words)
           /\ call' = [call EXCEPT
                          !.chunks = Append(@, ChunkOf(words, call.start, end)),
                          !.end = Some(end),
                          !.start = NextStart(end, call.overlap_words)]
    /\ UNCHANGED program

\* the loop condition is false: return chunks
ChunkReturn ==
    /\ call.fn = "chunk_loop"
    /\ ~(call.start < Len(Split(DocWords(call.arg.words))))
    /\ call' = Returned("chunk_text", call.arg, call.chunks)
    /\ UNCHANGED program

NextChunk == ChunkBegin \/ ChunkIterate \/ ChunkReturn

SpecChunk == InitChunk /\ [][NextChunk]_vars

\* C17: a document of 500 words chunked with 1000 target tokens (750 words
\* a chunk) and 100 overlap tokens (75 words) gives exactly one chunk, and
\* the chunk holds the 500 words of the document in their order.
FiveHundredWordsOneChunk ==
    /\ (call.fn = "chunk_loop" /\ call.arg.chunk_size = 1000
            /\ call.arg.overlap = 100) =>
           (call.words_per_chunk = 750 /\ call.overlap_words = 75)
    /\ (call.fn = "chunk_text" /\ call.arg.words = 500
            /\ call.arg.chunk_size = 1000 /\ call.arg.overlap = 100) =>
           /\ Len(call.ret) = 1
           /\ Len(Split(call.ret[1])) = 500
           /\ Split(call.ret[1]) = Split(DocWords(500))
           /\ call.ret = chunk_text(DocWords(500))

FiveHundredWordsOneChunkWitness ==
    /\ call.fn = "chunk_text" /\ call.arg.words = 500
    /\ call.arg.chunk_size = 1000 /\ call.arg.overlap = 100
    /\ Len(call.ret) = 1

\* C18: the loop of the chunker is never entered with a window that cannot
\* advance (overlap_words >= words_per_chunk), so that it ends with a
\* finite list of chunks, no more chunks than the text has words.
ChunkerWindowAdvances ==
    call.fn = "chunk_loop" =>
        /\ call.overlap_words < call.words_per_chunk
        /\ Len(call.chunks) <= call.arg.words

\* a chunk text whose words are separated by one space each, with no white
\* space before the first and after the last
SingleSpaced(chunk) ==
    /\ \A k \in DOMAIN chunk :
           IsSpace(chunk[k].ch) =>
               /\ chunk[k] = Run(" ", 1)
               /\ 1 < k /\ k < Len(chunk)
               /\ ~IsSpace(chunk[k - 1].ch) /\ ~IsSpace(chunk[k + 1].ch)

\* C21: with words_per_chunk = int(0.75 * target), overlap_words =
\* int(0.75 * overlap) and step = words_per_chunk - overlap_words > 0, the
\* chunker returns, for a text of N words, one chunk for every i >= 0 with
\* i * step < N and no other; chunk i is the words i * step up to (not
\* including) min(i * step + words_per_chunk, N), joined by single spaces.
\* Chunk 0 starts at word 0 and a text without words gives no chunk.
ChunkWindows ==
    (call.fn = "chunk_text"
        /\ (3 * call.arg.chunk_size) \div 4 > (3 * call.arg.overlap) \div 4) =>
        LET words == Split(DocWords(call.arg.words))
            N == Len(words)
            words_per_chunk == (3 * call.arg.chunk_size) \div 4
            step == words_per_chunk - (3 * call.arg.overlap) \div 4
        IN  /\ Len(call.ret) = Cardinality({i \in 0..N : i * step < N})
            /\ \A i \in 0..(Len(call.ret) - 1) :
                   /\ Split(call.ret[i + 1]) =
                          SubSeq(words, i * step + 1,
                                 Min(i * step + words_per_chunk, N))
                   /\ SingleSpaced(call.ret[i + 1])
            /\ (N = 0) => (call.ret = <<>>)

\* three chunks that overlap, the last one cut short by the end of the text
ChunkWindowsWitness ==
    /\ call.fn = "chunk_text"
    /\ Len(call.ret) >= 3
    /\ 0 < WordsFor(call.arg.overlap)
    /\ WordsFor(call.arg.overlap) < WordsFor(call.arg.chunk_size)
    /\ Len(Split(call.ret[Len(call.ret)])) < WordsFor(call.arg.chunk_size)

DefaultChunking(a) ==
    a.chunk_size = CHUNK_SIZE_TOKENS /\ a.overlap = CHUNK_OVERLAP_TOKENS

\* C29 as stated: with the default configuration, every chunk after the
\* first takes at least one word position that no earlier chunk took (the
\* earlier chunks took the positions below the last value of end).
EveryChunkAddsAWord ==
    (call.fn = "chunk_loop" /\ DefaultChunking(call.arg)
        /\ call.chunks # <<>> /\ call.start < call.arg.words) =>
        \E p \in call.start..(Min(call.start + call.words_per_chunk,
                                  call.arg.words) - 1) :
            p >= call.end.some

\* C29: with the default configuration (750 words a chunk, 75 words of
\* overlap) every chunk after the first starts 675 words after its
\* predecessor and is not empty; it takes a word position that no earlier
\* chunk took exactly when the text goes on after the predecessor's window.
\* When the text ends inside the overlap (as for texts of 676 to 750 words)
\* the chunk is the last one and its words are the last words of its
\* predecessor.
LastChunkMayRepeat ==
    /\ (call.fn = "chunk_loop" /\ DefaultChunking(call.arg)
           /\ call.chunks # <<>> /\ call.start < call.arg.words) =>
           LET stop == Min(call.start + call.words_per_chunk, call.arg.words)
           IN  /\ call.start = 675 * Len(call.chunks)
               /\ call.end.some = call.start + 75
               /\ stop > call.start
               /\ (\E p \in call.start..(stop - 1) : p >= call.end.some)
                      <=> call.arg.words > call.end.some
               /\ (call.arg.words <= call.end.some) =>
                      call.start + 675 >= call.arg.words
    /\ (call.fn = "chunk_text" /\ DefaultChunking(call.arg)
           /\ Len(call.ret) >= 2
           /\ call.arg.words <= 675 * (Len(call.ret) - 2) + 750) =>
           LET last == Split(call.ret[Len(call.ret)])
               prev == Split(call.ret[Len(call.ret) - 1])
           IN  /\ Len(last) <= 75 /\ Len(last) < Len(prev)
               /\ last = SubSeq(prev, Len(prev) - Len(last) + 1, Len(prev))

\* a text of 750 words: the second chunk is the last 75 words of the first
LastChunkMayRepeatWitness ==
    /\ call.fn = "chunk_text" /\ DefaultChunking(call.arg)
    /\ call.arg.words = 750
    /\ Len(call.ret) = 2
    /\ Len(Split(call.ret[1])) = 750

(***************************************************************************)
(* main.upload_document and tool.file_search.                              *)
(***************************************************************************)
LowerChar(c) ==
    CASE c = "A" -> "a" [] c = "P" -> "p" [] c = "D" -> "d" [] c = "F" -> "f"
      [] OTHER -> c

\* s.lower()
Lower(s) == [i \in DOMAIN s |-> LowerChar(s[i])]

\* s.endswith(suffix)
EndsWith(s, suffix) ==
    /\ Len(s) >= Len(suffix)
    /\ SubSeq(s, Len(s) - Len(suffix) + 1, Len(s)) = suffix

PDF_SUFFIX == <<".", "p", "d", "f">>

HttpError(status, detail, steps) ==
    [status |-> status, detail |-> detail, steps |-> steps]

DocumentContentKeepsText(file_id, filename, token_count, tier, text, vector_store_id) ==
    [file_id |-> file_id, filename |-> filename, token_count |-> token_count,
     tier |-> tier, full_text |-> Some(text), vector_store_id |-> vector_store_id]

\* the DocumentContent upload_document builds for a tier: the full text and
\* no vector store for "direct", the vector store and no text otherwise
DocumentContent(file_id, filename, token_count, tier, text, vector_store_id) ==
    IF tier = "direct"
    THEN [file_id |-> file_id, filename |-> filename,
          token_count |-> token_count, tier |-> tier,
          full_text |-> Some(text), vector_store_id |-> None]
    ELSE [file_id |-> file_id, filename |-> filename,
          token_count |-> token_count, tier |-> tier,
          full_text |-> None, vector_store_id |-> vector_store_id]

\* str(e) of the HTTPException raised for a text that is empty once stripped
EMPTY_TEXT_ERROR ==
    FString("{0}: {1}",
            <<"400", "Unable to extract text from PDF. The file may be empty or image-based.">>)

\* except Exception as e: HTTPException(500, f"Error processing document: ...")
ProcessingError(e, steps) ==
    HttpError(500, FString("Error processing document: {0}", <<e>>), steps)

upload_document_indexes_first(store, colls, tmp, uuids, filename, size, extraction, embed_ok) ==
    LET same == [store |-> store, colls |-> colls, tmp |-> tmp, uuids |-> uuids]
        temp_path == Uuid(uuids + 1)
        file_id == Uuid(uuids + 2)
        text == extraction.val
        token_count == count_tokens(text)
        tier == determine_tier(token_count)
        s1 == <<"validate_file_size">>
        s2 == s1 \o <<"write_temp", "extract_text_from_pdf">>
        s3 == s2 \o <<"remove_temp", "strip">>
        s4 == s3 \o <<"count_tokens", "validate_token_count">>
        s5 == s4 \o <<"determine_tier", "uuid4">>
        r4 == s3 \o <<"count_tokens", "determine_tier", "uuid4",
                       "validate_token_count">>
        r5 == s3 \o <<"count_tokens", "determine_tier", "uuid4",
                       "create_vector_store">>
        created == create_vector_store(colls, file_id, text, embed_ok)
    IN  IF ~EndsWith(Lower(filename), PDF_SUFFIX)
        THEN same @@
             [resp |-> HttpError(400, "Only PDF files are supported", <<>>)]
        ELSE IF ~validate_file_size(size).ok
        THEN same @@ [resp |-> HttpError(400, validate_file_size(size).detail, s1)]
        ELSE IF ~extraction.ok
        THEN [same EXCEPT !.tmp = tmp \cup {temp_path}, !.uuids = uuids + 1] @@
             [resp |-> ProcessingError(extraction.detail, s2)]
        ELSE IF StripIsEmpty(text)
        THEN [same EXCEPT !.uuids = uuids + 1] @@
             [resp |-> ProcessingError(EMPTY_TEXT_ERROR, s3)]
        ELSE IF tier = "direct" /\ ~validate_token_count(token_count).ok
        THEN [same EXCEPT !.uuids = uuids + 2] @@
             [resp |-> HttpError(400, validate_token_count(token_count).detail, r4)]
        ELSE IF tier = "direct"
        THEN LET doc == DocumentContent(file_id, filename, token_count, tier,
                                        text, None)
             IN  [same EXCEPT !.uuids = uuids + 2,
                              !.store = WithCollection(store, file_id, doc)] @@
                 [resp |-> [status |-> 200,
                            body |-> [file_id |-> file_id, filename |-> filename,
                                      size_bytes |-> size,
                                      token_count |-> token_count, tier |-> tier,
                                      message |-> "Document uploaded!"],
                            steps |-> r4 \o <<"put">>]]
        ELSE IF ~created.ret.ok
        THEN [same EXCEPT !.uuids = uuids + 2, !.colls = created.colls] @@
             [resp |-> ProcessingError(created.ret.detail, r5)]
        ELSE IF ~validate_token_count(token_count).ok
        THEN [same EXCEPT !.uuids = uuids + 2, !.colls = created.colls] @@
             [resp |-> HttpError(400, validate_token_count(token_count).detail,
                                 r5 \o <<"validate_token_count">>)]
        ELSE LET doc == DocumentContent(file_id, filename, token_count, tier,
                                        text, Some(created.ret.val))
             IN  [same EXCEPT !.uuids = uuids + 2, !.colls = created.colls,
                              !.store = WithCollection(store, file_id, doc)] @@
                 [resp |-> [status |-> 200,
                            body |-> [file_id |-> file_id, filename |-> filename,
                                      size_bytes |-> size,
                                      token_count |-> token_count, tier |-> tier,
                                      message |-> "Large document uploaded and indexed!"],
                            steps |-> r5 \o <<"validate_token_count", "put">>]]

\* upload_document(file): size is len(content), extraction the outcome of
\* extract_text_from_pdf on it, embed_ok whether the embedding call of
\* collection.add succeeds.  Returns the response and the state afterwards;
\* steps lists the steps the handler went through, in order.
upload_document(store, colls, tmp, uuids, filename, size, extraction, embed_ok) ==
    LET same == [store |-> store, colls |-> colls, tmp |-> tmp, uuids |-> uuids]
        temp_path == Uuid(uuids + 1)
        file_id == Uuid(uuids + 2)
        text == extraction.val
        token_count == count_tokens(text)
        tier == determine_tier(token_count)
        s1 == <<"validate_file_size">>
        s2 == s1 \o <<"write_temp", "extract_text_from_pdf">>
        s3 == s2 \o <<"remove_temp", "strip">>
        s4 == s3 \o <<"count_tokens", "validate_token_count">>
        s5 == s4 \o <<"determine_tier", "uuid4">>
        created == create_vector_store(colls, file_id, text, embed_ok)
    IN  IF ~EndsWith(Lower(filename), PDF_SUFFIX)
        THEN same @@
             [resp |-> HttpError(400, "Only PDF files are supported", <<>>)]
        ELSE IF ~validate_file_size(size).ok
        THEN same @@ [resp |-> HttpError(400, validate_file_size(size).detail, s1)]
        ELSE IF ~extraction.ok
        THEN [same EXCEPT !.tmp = tmp \cup {temp_path}, !.uuids = uuids + 1] @@
             [resp |-> ProcessingError(extraction.detail, s2)]
        ELSE IF StripIsEmpty(text)
        THEN [same EXCEPT !.uuids = uuids + 1] @@
             [resp |-> ProcessingError(EMPTY_TEXT_ERROR, s3)]
        ELSE IF ~validate_token_count(token_count).ok
        THEN [same EXCEPT !.uuids = uuids + 1] @@
             [resp |-> HttpError(400, validate_token_count(token_count).detail, s4)]
        ELSE IF tier = "direct"
        THEN LET doc == DocumentContent(file_id, filename, token_count, tier,
                                        text, None)
             IN  [same EXCEPT !.uuids = uuids + 2,
                              !.store = WithCollection(store, file_id, doc)] @@
                 [resp |-> [status |-> 200,
                            body |-> [file_id |-> file_id, filename |-> filename,
                                      size_bytes |-> size,
                                      token_count |-> token_count, tier |-> tier,
                                      message |-> "Document uploaded!"],
                            steps |-> s5 \o <<"put">>]]
        ELSE IF ~created.ret.ok
        THEN [same EXCEPT !.uuids = uuids + 2, !.colls = created.colls] @@
             [resp |-> ProcessingError(created.ret.detail,
                                       s5 \o <<"create_vector_store">>)]
        ELSE LET doc == DocumentContent(file_id, filename, token_count, tier,
                                        text, Some(created.ret.val))
             IN  [same EXCEPT !.uuids = uuids + 2, !.colls = created.colls,
                              !.store = WithCollection(store, file_id, doc)] @@
                 [resp |-> [status |-> 200,
                            body |-> [file_id |-> file_id, filename |-> filename,
                                      size_bytes |-> size,
                                      token_count |-> token_count, tier |-> tier,
                                      message |-> "Large document uploaded and indexed!"],
                            steps |-> s5 \o <<"create_vector_store", "put">>]]

Filenames == {<<"a", ".", "P", "D", "F">>, <<"a", ".", "t", "x", "t">>}

FileSizes == {MAX_FILE_SIZE_BYTES, MAX_FILE_SIZE_BYTES + 1}

\* a document of more than 80,000 tokens and 676 words: two chunks
BigDoc == Cat(Rep(".", DIRECT_TOKEN_LIMIT), Cat(SPACE, DocWords(ChunkStep)))

UploadTexts ==
    {<<>>, Lit(<<" ", "\n">>), Lit(<<"a", " ", "b">>),
     Rep(".", DIRECT_TOKEN_LIMIT), Rep(".", DIRECT_TOKEN_LIMIT + 1), BigDoc,
     Rep(".", MAX_TOKEN_LIMIT), Rep(".", MAX_TOKEN_LIMIT + 1)}

Extractions ==
    {Raise("PdfReadError", "Error processing document")}
        \cup {Ok(t) : t \in UploadTexts}

Init == ProgramInit /\ call = Input(None)

\* the file of a request as the handler meets it: its name, len(content),
\* whether extract_text_from_pdf returns, whether the text is blank
\* (not text.strip()), the tokens and words of the text, and whether the
\* embedding call succeeds
ExtractionFacts ==
    [e \in Extractions |->
        [blank |-> e.ok /\ StripIsEmpty(e.val),
         tokens |-> IF e.ok THEN count_tokens(e.val) ELSE 0,
         words |-> IF e.ok THEN Len(Split(e.val)) ELSE 0]]

UploadedFile(filename, size, extraction, embed_ok) ==
    [filename |-> filename, size |-> size, extracted |-> extraction.ok,
     blank |-> ExtractionFacts[extraction].blank,
     tokens |-> ExtractionFacts[extraction].tokens,
     words |-> ExtractionFacts[extraction].words,
     embed_ok |-> embed_ok]

\* the requests: a file that is no PDF, PDFs over the size limit, PDFs of
\* the largest size allowed with every extraction outcome, and those of the
\* indexed tier again with a failing embedding call
UploadFiles ==
    {[filename |-> fn, size |-> MAX_FILE_SIZE_BYTES,
      extraction |-> Ok(Lit(<<"a", " ", "b">>)), embed_ok |-> TRUE] :
         fn \in Filenames}
    \cup {[filename |-> <<"a", ".", "P", "D", "F">>, size |-> sz,
           extraction |-> e, embed_ok |-> TRUE] :
              sz \in FileSizes, e \in Extractions}
    \cup {[filename |-> <<"a", ".", "P", "D", "F">>,
           size |-> MAX_FILE_SIZE_BYTES, extraction |-> Ok(t),
           embed_ok |-> FALSE] :
              t \in {Rep(".", DIRECT_TOKEN_LIMIT + 1), BigDoc}}

\* a request to upload_document, its file drawn from the given ones
UploadFrom(files) ==
    /\ rq = None
    /\ uuid_count + 2 <= MaxUuids
    /\ \E f \in files :
          \E o \in {upload_document(document_store, collections, tmp_files,
                                    uuid_count, f.filename, f.size,
                                    f.extraction, f.embed_ok)} :
              /\ document_store' = o.store
              /\ collections' = o.colls
              /\ tmp_files' = o.tmp
              /\ uuid_count' = o.uuids
              /\ response' = o.resp
              /\ call' = Returned("upload_document",
                                  UploadedFile(f.filename, f.size,
                                               f.extraction, f.embed_ok),
                                  None)
    /\ rq' = rq

UploadDocument == UploadFrom(UploadFiles)

IsDirectAlways(doc) == TRUE

\* if doc.tier == "direct"
IsDirect(doc) == doc.tier = "direct"

file_search_doc_fallback(store, file_id) ==
    IF store = EmptyMap
    THEN Raise("ValueError", "Document not found. Please upload a document first.")
    ELSE IF file_id \notin DOMAIN store
    THEN Ok(store[CHOOSE k \in DOMAIN store : TRUE])
    ELSE Ok(store[file_id])

\* the lookup file_search starts with: it raises when the store is None or
\* empty (not document_store) or does not hold file_id, else doc is the record
file_search_doc(store, file_id) ==
    IF store = EmptyMap \/ file_id \notin DOMAIN store
    THEN Raise("ValueError", "Document not found. Please upload a document first.")
    ELSE Ok(store[file_id])

\* the identifiers a request may name: of a record, of a collection, or
\* one that was never drawn
RequestIds == DOMAIN document_store \cup DOMAIN collections \cup {Uuid(0)}

\* the answers of the text-generation call to a request of file_search: one
\* variant too few, and the fewest and the most variants accepted
SearchVariantLists ==
    {SubSeq(VariantNames, 1, n) :
        n \in {MIN_EXPANDED_QUERIES - 1, MIN_EXPANDED_QUERIES,
               MAX_EXPANDED_QUERIES}}

\* file_search(file_id, topic_query) up to its first external call
FileSearchBegin ==
    /\ rq = None
    /\ \E file_id \in RequestIds, expanded_queries \in SearchVariantLists :
          LET found == file_search_doc(document_store, file_id)
              doc == found.val
          IN  /\ call' = Returned("file_search", [file_id |-> file_id], None)
              /\ IF ~found.ok
                 THEN /\ response' = found
                      /\ rq' = rq
                 ELSE IF IsDirect(doc)
                 THEN /\ response' = Ok([template |-> "direct",
                                         filename |-> doc.filename,
                                         topic_query |-> "q",
                                         content |-> doc.full_text])
                      /\ rq' = rq
                 ELSE /\ rq' = RqBegin(collections, doc.vector_store_id.some,
                                       "q", expanded_queries)
                      /\ response' = response
    /\ UNCHANGED <<document_store, collections, tmp_files, uuid_count>>

\* retrieve_chunks has returned or raised inside file_search
FileSearchReturn ==
    /\ rq # None /\ rq.pc = "done"
    /\ response' =
          IF rq.ret.ok
          THEN LET doc == document_store[rq.file_id]
               IN  Ok([template |-> "rag", filename |-> doc.filename,
                       token_count |-> doc.token_count, topic_query |-> "q",
                       content |-> rq.ret.val])
          ELSE rq.ret
    /\ rq' = None
    /\ UNCHANGED <<document_store, collections, tmp_files, uuid_count, call>>

Next == UploadDocument \/ FileSearchBegin \/ RetrieveQuery \/ FileSearchReturn

Spec == Init /\ [][Next]_vars

\* C16: file_search for an identifier the document store does not hold,
\* the store being empty or not, raises the not-found error and starts no
\* retrieval: no text-generation call and no lookup is made for it.
UnknownDocumentNotFound ==
    (call.fn = "file_search" /\ call.arg.file_id \notin DOMAIN document_store) =>
        /\ rq = None
        /\ ~response.ok /\ response.exc = "ValueError"
        /\ response.detail = "Document not found. Please upload a document first."

\* the request names the collection a failed upload left behind
UnknownDocumentNotFoundWitness ==
    /\ call.fn = "file_search"
    /\ call.arg.file_id \notin DOMAIN document_store
    /\ call.arg.file_id \in DOMAIN collections
    /\ document_store # EmptyMap
    /\ ~response.ok

(***************************************************************************)
(* SpecDelete: documents are uploaded, rag.delete_vector_store is applied  *)
(* to identifiers and file_search is asked for them.  No handler calls     *)
(* delete_vector_store; it is the one deletion the program has.            *)
(***************************************************************************)
LifecycleTexts == {Lit(<<"a", " ", "b">>), Rep(".", DIRECT_TOKEN_LIMIT + 1)}

UploadAccepted ==
    UploadFrom({[filename |-> <<"a", ".", "p", "d", "f">>,
                 size |-> MAX_FILE_SIZE_BYTES, extraction |-> Ok(t),
                 embed_ok |-> ok] : t \in LifecycleTexts, ok \in BOOLEAN})

DeleteVectorStore ==
    /\ rq = None
    /\ \E file_id \in RequestIds :
          LET r == delete_vector_store(collections, file_id)
          IN  /\ collections' = r.colls
              /\ call' = Returned("delete_vector_store",
                                  [file_id |-> file_id, before |-> collections],
                                  r.ret)
    /\ UNCHANGED <<document_store, tmp_files, uuid_count, response, rq>>

NextDelete ==
    \/ UploadAccepted
    \/ DeleteVectorStore
    \/ FileSearchBegin
    \/ RetrieveQuery
    \/ FileSearchReturn

SpecDelete == Init /\ [][NextDelete]_vars

\* C19: the deletion of a document removes its record from the document
\* store and, for an indexed document, its collection: after it the store
\* holds no record and the client no collection for the identifier.
DeletionRemovesRecord ==
    call.fn = "delete_vector_store" =>
        /\ call.arg.file_id \notin DOMAIN document_store
        /\ ~HasCollection(collections, call.arg.file_id)

\* C20: delete_vector_store never raises; when the collection is absent,
\* never created or deleted before, it returns and changes nothing, so a
\* second deletion leaves what the first left; the other collections are
\* never changed.
DeleteIsBestEffort ==
    call.fn = "delete_vector_store" =>
        LET id == call.arg.file_id
            before == call.arg.before
        IN  /\ call.ret = Ok(None)
            /\ DOMAIN collections = DOMAIN before \ {id}
            /\ \A k \in DOMAIN collections : collections[k] = before[k]
            /\ id \notin DOMAIN before => collections = before

\* the deletion of an absent collection beside one that has chunks
DeleteIsBestEffortWitness ==
    /\ call.fn = "delete_vector_store"
    /\ call.arg.file_id \notin DOMAIN call.arg.before
    /\ \E k \in DOMAIN collections : collections[k] # <<>>

\* C2: every record of the document store has exactly one of full text and
\* index handle, decided by its tier alone: direct has the full text and no
\* index handle; indexed has no full text and an index handle equal to the
\* record's own identifier.
TierDecidesContent ==
    \A id \in DOMAIN document_store :
        LET doc == document_store[id]
        IN  /\ doc.file_id = id
            /\ doc.tier \in {"direct", "rag"}
            /\ (doc.full_text # None) # (doc.vector_store_id # None)
            /\ doc.tier = "direct" =>
                   (doc.full_text # None /\ doc.vector_store_id = None)
            /\ doc.tier = "rag" =>
                   (doc.full_text = None /\ doc.vector_store_id = Some(id))

TierDecidesContentWitness ==
    \E a, b \in DOMAIN document_store :
        /\ document_store[a].tier = "direct"
        /\ document_store[b].tier = "rag"
        /\ document_store[b].vector_store_id = Some(b)

IsPdf(f) == EndsWith(Lower(f.filename), PDF_SUFFIX)

\* C22: in every interleaving of uploads and retrievals, a record of the
\* indexed tier is in the document store only when create_vector_store has
\* returned with all chunks of the document in its collection, and no lookup
\* is made against a collection before that: a retrieval with a lookup done
\* or to do is for a record of the store whose collection holds its chunks.
IndexedBeforeVisible ==
    /\ \A id \in DOMAIN document_store :
           document_store[id].tier = "rag" =>
               /\ HasCollection(collections, id)
               /\ collections[id] # <<>>
               /\ \A k \in DOMAIN collections[id] :
                      collections[id][k].id = ChunkId(id, k - 1)
    /\ (call.fn = "upload_document" /\ response.status = 200
            /\ response.body.tier = "rag") =>
           Len(collections[response.body.file_id]) =
               Cardinality({i \in 0..call.arg.words :
                               i * 675 < call.arg.words})
    /\ (rq # None /\ (rq.lookups > 0 \/ rq.pc = "query")) =>
           /\ rq.file_id \in DOMAIN document_store
           /\ HasCollection(collections, rq.file_id)
           /\ collections[rq.file_id] # <<>>

\* a lookup was made for a document of two chunks while the collection of a
\* failed upload is about
IndexedBeforeVisibleWitness ==
    /\ rq # None /\ rq.lookups > 0
    /\ Len(collections[rq.file_id]) = 2
    /\ \E id \in DOMAIN collections : id \notin DOMAIN document_store

INGEST_STEPS ==
    <<"validate_file_size", "write_temp", "extract_text_from_pdf",
      "remove_temp", "strip", "count_tokens", "validate_token_count",
      "determine_tier", "uuid4", "create_vector_store", "put">>

Without(seq, x) == SelectSeq(seq, LAMBDA y : y # x)

StepsOf(resp) == {resp.steps[k] : k \in DOMAIN resp.steps}

\* what a request to upload_document does, from the state before to the
\* state after it
IngestStep ==
    LET f == call'.arg
        steps == response'.steps
        order == IF "create_vector_store" \in StepsOf(response')
                 THEN INGEST_STEPS
                 ELSE Without(INGEST_STEPS, "create_vector_store")
    IN  /\ \E n \in 0..Len(order) : steps = SubSeq(order, 1, n)
        /\ ("put" \in StepsOf(response')) <=> (response'.status = 200)
        /\ ("put" \in StepsOf(response')) <=> (document_store' # document_store)
        /\ ("create_vector_store" \in StepsOf(response'))
               <=> (collections' # collections)
        /\ ("write_temp" \in StepsOf(response')) <=> (uuid_count' # uuid_count)
        /\ (response'.status = 200) =>
               \/ steps = INGEST_STEPS /\ response'.body.tier = "rag"
               \/ /\ steps = Without(INGEST_STEPS, "create_vector_store")
                  /\ response'.body.tier = "direct"
        /\ (IsPdf(f) /\ f.size > MAX_FILE_SIZE_BYTES) =>
               /\ steps = <<"validate_file_size">>
               /\ response'.status = 400
               /\ UNCHANGED <<document_store, collections, tmp_files, uuid_count>>
        /\ (IsPdf(f) /\ f.size <= MAX_FILE_SIZE_BYTES /\ f.extracted
                /\ (f.blank \/ f.tokens > MAX_TOKEN_LIMIT)) =>
               /\ response'.status # 200
               /\ "determine_tier" \notin StepsOf(response')
               /\ steps[Len(steps)] =
                      IF f.blank THEN "strip" ELSE "validate_token_count"
               /\ UNCHANGED <<document_store, collections>>

\* C23: an upload goes through size check, extraction, empty-text check,
\* token count check, tier classification, index creation (indexed tier
\* only) and the put into the document store, in this order; a step that
\* rejects is the last step taken.  An upload over the size limit is not
\* extracted; one whose text is blank or has too many tokens creates no
\* collection and no record.
IngestInOrder == [][call'.fn = "upload_document" => IngestStep]_vars

\* an upload with too many tokens was rejected, after one of the indexed tier
\* was put into the store
IngestInOrderWitness ==
    /\ call.fn = "upload_document" /\ IsPdf(call.arg)
    /\ call.arg.tokens > MAX_TOKEN_LIMIT
    /\ response.status = 400
    /\ \E id \in DOMAIN document_store : document_store[id].tier = "rag"

\* what a step of file_search does
QueryStep ==
    /\ UNCHANGED <<document_store, collections>>
    /\ (rq = None /\ call'.arg.file_id \in DOMAIN document_store) =>
           LET doc == document_store[call'.arg.file_id]
           IN  IF doc.tier = "direct"
               THEN /\ rq' = None
                    /\ response'.ok
                    /\ response'.val.template = "direct"
                    /\ doc.full_text # None
                    /\ response'.val.content = doc.full_text
               ELSE /\ rq' # None
                    /\ doc.vector_store_id # None
                    /\ rq'.file_id = doc.vector_store_id.some
                    /\ rq'.lookups = 0
                    /\ rq'.expansions = 1
                    /\ response' = response
    /\ (rq # None /\ rq' # None) =>
           /\ rq'.file_id = rq.file_id
           /\ rq'.expansions = rq.expansions
           /\ rq'.lookups = rq.lookups + 1
    /\ (rq # None /\ rq' = None /\ rq.ret.ok) =>
           /\ response'.ok
           /\ response'.val.template = "rag"
           /\ response'.val.content = rq.ret.val

\* C25: file_search chooses its branch by the tier stored in the record
\* alone.  For a direct record it answers with the stored full text and
\* calls neither the expander nor the index; for an indexed record it
\* expands the query once and retrieves from the collection the record
\* names.  No step of a query changes the document store or a collection.
QueryByStoredTier == [][call'.fn = "file_search" => QueryStep]_vars

\* a query of an indexed document was answered with two chunks while the
\* store holds a direct document
QueryByStoredTierWitness ==
    /\ call.fn = "file_search" /\ rq = None
    /\ response.ok /\ response.val.template = "rag"
    /\ Len(collections[call.arg.file_id]) = 2
    /\ \E id \in DOMAIN document_store : document_store[id].tier = "direct"

\* C26: an upload that fails, at whichever step, leaves no record and no
\* collection for its identifier: every collection is the collection of a
\* record of the document store.
FailedIngestLeavesNothing ==
    \A id \in DOMAIN collections : id \in DOMAIN document_store

\* C27: every rejection of an upload is a client error of one class: a PDF
\* whose text is empty or white space only is answered with status 400, as
\* one that is too large or has too many tokens is, and never with 500.
RejectionsAreClientErrors ==
    (call.fn = "upload_document" /\ IsPdf(call.arg) /\ call.arg.extracted) =>
        /\ call.arg.size > MAX_FILE_SIZE_BYTES => response.status = 400
        /\ (call.arg.size <= MAX_FILE_SIZE_BYTES /\ call.arg.blank) =>
               response.status = 400
        /\ (call.arg.size <= MAX_FILE_SIZE_BYTES /\ ~call.arg.blank
                /\ call.arg.tokens > MAX_TOKEN_LIMIT) => response.status = 400

\* C30: a temporary PDF that upload_document wrote no longer exists when the
\* request has completed, whether the upload was accepted, was rejected or
\* extraction raised.
TempFileRemoved == tmp_files = {}

====
